---- MODULE Spec2Model ----
(***************************************************************************)
(* State-machine model of the tis_components adapters:                     *)
(*   - TisVectorStore (tis_pgvector.py): add_documents and its helpers,    *)
(*     run by concurrent writers against one PostgreSQL database, and      *)
(*     similarity_search / search_documents over a committed corpus;       *)
(*   - TisMongoDBComponent (tis_mongodb.py): intent detection, store and   *)
(*     search;                                                             *)
(*   - TisRedisComponent (tis_redis.py) and TisRedisChatStorageComponent   *)
(*     (tis_redis_chat_storage.py).                                        *)
(* Each component has a specification of its own over the shared variable  *)
(* list; the variables of the other components stay at their initial value.*)
(***************************************************************************)
EXTENDS Integers, Sequences, FiniteSets, TLC

VARIABLES conf, db, seq, wr, calls, mg, mongo, rd, vs, cv, rl

vars == <<conf, db, seq, wr, calls, mg, mongo, rd, vs, cv, rl>>

(***************************************************************************)
(* Bounds                                                                  *)
(***************************************************************************)
\* largest batch handed to add_documents
MaxBatch == 2
\* add_documents calls in one behaviour
MaxCalls == 2

Min(a, b) == IF a < b THEN a ELSE b

(***************************************************************************)
(* PostgreSQL store behind TisVectorStore                                  *)
(***************************************************************************)
Writers == {"w1", "w2"}

\* embedding_dimension values the store may be configured with (the component
\* defaults to 384; small values stand for them)
Dimensions == {1, 2}

\* model_name = f"langflow-{self.embedding_dimension}d"
ModelName(dimension) == <<"langflow-", dimension, "d">>

\* Column lists of the INSERT statements, in the order the code tries them.
DocumentLayouts ==
    << {"source", "content", "metadata"}, {"source", "content"}, {"content"} >>

ModelLayouts == << {"name", "dimension", "notes"}, {"name"} >>

EmbeddingLayouts ==
    << {"document_id", "model_id", "embedding"}, {"document_id", "embedding"} >>

\* The tables are the user's: the columns they have are not fixed by the code.
DocumentSchemas ==
    { {"source", "content", "metadata"}, {"source", "content"}, {"content"}, {} }

ModelSchemas == { {"name", "dimension", "notes"}, {"name"} }

EmbeddingSchemas ==
    { {"document_id", "model_id", "embedding"}, {"document_id", "embedding"} }

\* Length of the vectors self.embedding_model produces: the model is handed to
\* the store, nothing ties it to embedding_dimension.  The embedding column is
\* vector(d), or vector without a dimension (0).
ColumnDimensions == {0} \cup Dimensions

NoRows == [documents |-> {}, embeddings |-> {}, models |-> {}]

IdleWriter ==
    [pc |-> "idle", txn |-> 0, n |-> 0, m |-> 0, i |-> 0,
     attempt |-> 0, model_id |-> 0, document_id |-> 0, document_ids |-> <<>>,
     aborted |-> FALSE, pending |-> NoRows, missed |-> FALSE, errs |-> {},
     attempts |-> <<>>, outcome |-> "none"]

\* Rows a statement of writer w reads (READ COMMITTED): what is committed and
\* what its own transaction has written.
Visible(w, table) == db[table] \cup wr[w].pending[table]

\* A unique index on models.name, when the table has one, makes an INSERT of a
\* name another open transaction has inserted wait for that transaction's end.
MustWait(w) ==
    /\ conf.unique
    /\ \E o \in Writers \ {w} :
          \E r \in wr[o].pending.models :
              r.name = ModelName(conf.embedding_dimension)

\* psycopg2's cursor.execute of an INSERT: the error it raises, or "none".
\* After any error inside a transaction PostgreSQL rejects every further
\* statement of that transaction until ROLLBACK (InFailedSqlTransaction).
StatementError(w, fault, layout, columns, conflict) ==
    IF wr[w].aborted THEN "in_failed_transaction"
    ELSE IF fault THEN "operational"
    ELSE IF ~(layout \subseteq columns) THEN "undefined_column"
    ELSE IF conflict THEN "unique_violation"
    ELSE "none"

\* A vector(d) column takes vectors of d elements only ("expected d
\* dimensions, not n"); a vector column takes any.
Fits(length) == conf.column_dimension \in {0, length}

\* except Exception: conn.rollback(); raise ... finally: close
Raised(rec, err) ==
    [rec EXCEPT !.pc = "done", !.outcome = "raised", !.pending = NoRows,
                !.errs = @ \cup {err}, !.aborted = FALSE]

PgInit ==
    /\ conf \in [documents : DocumentSchemas, models : ModelSchemas,
                 embeddings : EmbeddingSchemas, unique : BOOLEAN,
                 embedding_dimension : Dimensions,
                 vector_length : Dimensions,
                 column_dimension : ColumnDimensions]
    /\ db = NoRows
    /\ seq = [documents |-> 1, models |-> 1]
    /\ wr = [w \in Writers |-> IdleWriter]
    /\ calls = 0

\* add_documents, up to the first statement: the empty batch returns [] at
\* once; otherwise psycopg2.connect runs outside the try block.
Call(w) ==
    /\ wr[w].pc = "idle"
    /\ calls < MaxCalls
    /\ calls' = calls + 1
    /\ \E n \in 0..MaxBatch, fault \in BOOLEAN :
          wr' = [wr EXCEPT ![w] =
                   IF n = 0
                   THEN [IdleWriter EXCEPT !.pc = "done", !.txn = calls + 1,
                             !.outcome = "ok"]
                   ELSE IF fault
                   THEN [IdleWriter EXCEPT !.pc = "done", !.txn = calls + 1,
                             !.n = n, !.outcome = "raised",
                             !.errs = {"operational"}]
                   ELSE [IdleWriter EXCEPT !.pc = "select_model",
                             !.txn = calls + 1, !.n = n]]
    /\ UNCHANGED <<conf, db, seq, mg, mongo, rd, vs, cv, rl>>

\* _ensure_model_exists: SELECT id FROM models WHERE name = %s; fetchone()
SelectModel(w) ==
    /\ wr[w].pc = "select_model"
    /\ \E fault \in BOOLEAN :
         LET found == {r \in Visible(w, "models") :
                           r.name = ModelName(conf.embedding_dimension)}
         IN IF fault
            THEN wr' = [wr EXCEPT ![w] = Raised(@, "operational")]
            ELSE IF found # {}
            THEN \E r \in found :
                    wr' = [wr EXCEPT ![w].model_id = r.id, ![w].pc = "embed"]
            ELSE wr' = [wr EXCEPT ![w].missed = TRUE, ![w].attempt = 1,
                                  ![w].pc = "insert_model"]
    /\ UNCHANGED <<conf, db, seq, calls, mg, mongo, rd, vs, cv, rl>>

\* _ensure_model_exists: INSERT (name, dimension, notes), and on
\* psycopg2.Error INSERT (name); the second error propagates.
InsertModel(w) ==
    /\ wr[w].pc = "insert_model"
    /\ wr[w].aborted \/ ~MustWait(w)
    /\ \E fault \in BOOLEAN :
         LET k == wr[w].attempt
             name == ModelName(conf.embedding_dimension)
             err == StatementError(w, fault, ModelLayouts[k], conf.models,
                       conf.unique /\ \E r \in db.models : r.name = name)
             row == [id |-> seq.models, name |-> name,
                     dimension |-> IF "dimension" \in ModelLayouts[k]
                                   THEN conf.embedding_dimension ELSE 0,
                     txn |-> wr[w].txn]
         IN IF err = "none"
            THEN /\ wr' = [wr EXCEPT ![w].model_id = row.id,
                               ![w].pending.models = @ \cup {row},
                               ![w].pc = "embed"]
                 /\ seq' = [seq EXCEPT !.models = @ + 1]
            ELSE /\ seq' = seq
                 /\ IF k < Len(ModelLayouts)
                    THEN wr' = [wr EXCEPT ![w].attempt = k + 1,
                                    ![w].aborted = TRUE,
                                    ![w].errs = @ \cup {err}]
                    ELSE wr' = [wr EXCEPT ![w] = Raised(@, err)]
    /\ UNCHANGED <<conf, db, calls, mg, mongo, rd, vs, cv, rl>>

\* embeddings_list = self.embedding_model.embed_documents(texts); the loop is
\* over zip(documents, embeddings_list), which stops at the shorter of the two.
Embed(w) ==
    /\ wr[w].pc = "embed"
    /\ \E fault \in BOOLEAN, m \in 0..(MaxBatch + 1) :
         /\ m \in {wr[w].n - 1, wr[w].n, wr[w].n + 1}
         /\ IF fault
            THEN wr' = [wr EXCEPT ![w] = Raised(@, "embedding")]
            ELSE IF Min(wr[w].n, m) = 0
            THEN wr' = [wr EXCEPT ![w].m = m, ![w].pc = "commit"]
            ELSE wr' = [wr EXCEPT ![w].m = m, ![w].i = 1, ![w].attempt = 1,
                             ![w].attempts = <<>>,
                             ![w].pc = "insert_document"]
    /\ UNCHANGED <<conf, db, seq, calls, mg, mongo, rd, vs, cv, rl>>

\* _insert_document: the three nested INSERT attempts.
InsertDocument(w) ==
    /\ wr[w].pc = "insert_document"
    /\ \E fault \in BOOLEAN :
         LET k == wr[w].attempt
             err == StatementError(w, fault, DocumentLayouts[k],
                                   conf.documents, FALSE)
             row == [id |-> seq.documents, layout |-> DocumentLayouts[k],
                     txn |-> wr[w].txn]
             log == Append(wr[w].attempts, [layout |-> DocumentLayouts[k],
                                            err |-> err])
         IN IF err = "none"
            THEN /\ wr' = [wr EXCEPT ![w].document_id = row.id,
                               ![w].document_ids = Append(@, row.id),
                               ![w].pending.documents = @ \cup {row},
                               ![w].attempts = log,
                               ![w].attempt = 1,
                               ![w].pc = "insert_embedding"]
                 /\ seq' = [seq EXCEPT !.documents = @ + 1]
            ELSE /\ seq' = seq
                 /\ IF k < Len(DocumentLayouts)
                    THEN wr' = [wr EXCEPT ![w].attempt = k + 1,
                                    ![w].aborted = TRUE,
                                    ![w].attempts = log,
                                    ![w].errs = @ \cup {err}]
                    ELSE wr' = [wr EXCEPT ![w] =
                                    Raised([@ EXCEPT !.attempts = log], err)]
    /\ UNCHANGED <<conf, db, calls, mg, mongo, rd, vs, cv, rl>>

\* _insert_embedding: INSERT (document_id, model_id, embedding), and on
\* psycopg2.Error INSERT (document_id, embedding).
InsertEmbedding(w) ==
    /\ wr[w].pc = "insert_embedding"
    /\ \E fault \in BOOLEAN :
         LET k == wr[w].attempt
             sent == StatementError(w, fault, EmbeddingLayouts[k],
                                    conf.embeddings, FALSE)
             err == IF sent = "none" /\ ~Fits(conf.vector_length)
                    THEN "data_exception" ELSE sent
             row == [document_id |-> wr[w].document_id,
                     model_id |-> IF "model_id" \in EmbeddingLayouts[k]
                                  THEN wr[w].model_id ELSE 0,
                     length |-> conf.vector_length,
                     txn |-> wr[w].txn]
         IN IF err = "none"
            THEN IF wr[w].i < Min(wr[w].n, wr[w].m)
                 THEN wr' = [wr EXCEPT ![w].pending.embeddings = @ \cup {row},
                                  ![w].i = @ + 1, ![w].attempt = 1,
                                  ![w].attempts = <<>>,
                                  ![w].pc = "insert_document"]
                 ELSE wr' = [wr EXCEPT ![w].pending.embeddings = @ \cup {row},
                                  ![w].pc = "commit"]
            ELSE IF k < Len(EmbeddingLayouts)
                 THEN wr' = [wr EXCEPT ![w].attempt = k + 1,
                                  ![w].aborted = TRUE,
                                  ![w].errs = @ \cup {err}]
                 ELSE wr' = [wr EXCEPT ![w] = Raised(@, err)]
    /\ UNCHANGED <<conf, db, seq, calls, mg, mongo, rd, vs, cv, rl>>

\* conn.commit(); return document_ids.  A commit that fails leaves nothing
\* behind and is handled like every other exception.
Commit(w) ==
    /\ wr[w].pc = "commit"
    /\ \E fault \in BOOLEAN :
         IF fault
         THEN /\ wr' = [wr EXCEPT ![w] = Raised(@, "operational")]
              /\ db' = db
         ELSE /\ db' = [t \in DOMAIN db |-> db[t] \cup wr[w].pending[t]]
              /\ wr' = [wr EXCEPT ![w].pending = NoRows, ![w].pc = "done",
                              ![w].outcome = "ok"]
    /\ UNCHANGED <<conf, seq, calls, mg, mongo, rd, vs, cv, rl>>

\* The caller has the result (or the exception); the writer is free again.
Return(w) ==
    /\ wr[w].pc = "done"
    /\ wr' = [wr EXCEPT ![w] = IdleWriter]
    /\ UNCHANGED <<conf, db, seq, calls, mg, mongo, rd, vs, cv, rl>>

(***************************************************************************)
(* Text.  A string is a sequence of one-character strings.  The characters *)
(* the model's inputs are made of: whitespace, JSON punctuation, digits,   *)
(* letters, and the punctuation of the derived content (":", "|", "(",     *)
(* ")").  Backslash, sign, fraction and exponent characters never occur.   *)
(***************************************************************************)
Whitespace == {" "}

Digits == {"0", "1", "2", "3", "4", "5", "6", "7", "8", "9"}

\* s[i:i+1]
At(s, i) == IF 1 <= i /\ i <= Len(s) THEN s[i] ELSE ""

RECURSIVE SkipWs(_, _)
\* WHITESPACE.match(s, i).end()
SkipWs(s, i) ==
    IF i <= Len(s) /\ s[i] \in Whitespace THEN SkipWs(s, i + 1) ELSE i

RECURSIVE SkipWsBack(_, _)
SkipWsBack(s, i) ==
    IF i >= 1 /\ s[i] \in Whitespace THEN SkipWsBack(s, i - 1) ELSE i

\* str.strip()
Strip(s) == SubSeq(s, SkipWs(s, 1), SkipWsBack(s, Len(s)))

\* s[i:i+len(lit)] == lit
StartsWith(s, i, lit) ==
    /\ i + Len(lit) - 1 <= Len(s)
    /\ SubSeq(s, i, i + Len(lit) - 1) = lit

(***************************************************************************)
(* json.loads.  Values are records tagged by kind: "dict" (items: the      *)
(* key/value pairs in input order), "list", "str", "int" (its digits),     *)
(* "const" (true, false, null, NaN, Infinity), and "None" for Python's     *)
(* None.  The result of a scan is [ok, val, end]: end is the index after   *)
(* the value; ok = FALSE stands for json.JSONDecodeError.                  *)
(***************************************************************************)
NoneValue == [kind |-> "None"]

DecodeError == [ok |-> FALSE, val |-> NoneValue, end |-> 0]

Scanned(v, e) == [ok |-> TRUE, val |-> v, end |-> e]

TextValue(s) == [kind |-> "str", s |-> s]

Constants ==
    { <<"t", "r", "u", "e">>, <<"f", "a", "l", "s", "e">>,
      <<"n", "u", "l", "l">>, <<"N", "a", "N">>,
      <<"I", "n", "f", "i", "n", "i", "t", "y">> }

RECURSIVE ScanString(_, _, _)
\* scanstring, from the character after the opening quote
ScanString(s, i, acc) ==
    IF i > Len(s) THEN DecodeError
    ELSE IF s[i] = "\"" THEN Scanned(TextValue(acc), i + 1)
    ELSE ScanString(s, i + 1, Append(acc, s[i]))

RECURSIVE ScanDigits(_, _)
ScanDigits(s, i) ==
    IF i <= Len(s) /\ s[i] \in Digits THEN ScanDigits(s, i + 1) ELSE i

\* NUMBER_RE: (0|[1-9][0-9]*), no fraction or exponent in the alphabet
ScanNumber(s, i) ==
    LET e == IF s[i] = "0" THEN i + 1 ELSE ScanDigits(s, i)
    IN Scanned([kind |-> "int", s |-> SubSeq(s, i, e - 1)], e)

\* pairs[key] = value of a Python dict kept as a sequence of pairs: a key
\* already present keeps its position and takes the new value.
Put(items, key, value) ==
    IF \E n \in 1..Len(items) : items[n].k = key
    THEN [n \in 1..Len(items) |->
             IF items[n].k = key THEN [k |-> key, v |-> value] ELSE items[n]]
    ELSE Append(items, [k |-> key, v |-> value])

RECURSIVE ScanOnce(_, _), ScanMembers(_, _, _), ScanElements(_, _, _)
\* scan_once: one JSON value starting at s[i]
ScanOnce(s, i) ==
    LET c == At(s, i)
    IN IF c = "" THEN DecodeError
       ELSE IF c = "\"" THEN ScanString(s, i + 1, <<>>)
       ELSE IF c = "{"
       THEN LET j == SkipWs(s, i + 1)
            IN IF At(s, j) = "}"
               THEN Scanned([kind |-> "dict", items |-> <<>>], j + 1)
               ELSE IF At(s, j) = "\"" THEN ScanMembers(s, j + 1, <<>>)
               ELSE DecodeError
       ELSE IF c = "["
       THEN LET j == SkipWs(s, i + 1)
            IN IF At(s, j) = "]"
               THEN Scanned([kind |-> "list", items |-> <<>>], j + 1)
               ELSE ScanElements(s, j, <<>>)
       ELSE IF \E lit \in Constants : StartsWith(s, i, lit)
       THEN LET lit == CHOOSE l \in Constants : StartsWith(s, i, l)
            IN Scanned([kind |-> "const", s |-> lit], i + Len(lit))
       ELSE IF c \in Digits THEN ScanNumber(s, i)
       ELSE DecodeError

\* JSONObject's loop, from the character after a key's opening quote
ScanMembers(s, i, acc) ==
    LET key == ScanString(s, i, <<>>)
    IN IF ~key.ok THEN DecodeError
       ELSE LET colon == SkipWs(s, key.end)
            IN IF At(s, colon) # ":" THEN DecodeError
               ELSE LET value == ScanOnce(s, SkipWs(s, colon + 1))
                    IN IF ~value.ok THEN DecodeError
                       ELSE LET e == SkipWs(s, value.end)
                                items == Put(acc, key.val.s, value.val)
                            IN IF At(s, e) = "}"
                               THEN Scanned([kind |-> "dict",
                                             items |-> items], e + 1)
                               ELSE IF At(s, e) # "," THEN DecodeError
                               ELSE LET q == SkipWs(s, e + 1)
                                    IN IF At(s, q) # "\"" THEN DecodeError
                                       ELSE ScanMembers(s, q + 1, items)

\* JSONArray's loop, from the first character of an element
ScanElements(s, i, acc) ==
    LET value == ScanOnce(s, i)
    IN IF ~value.ok THEN DecodeError
       ELSE LET e == SkipWs(s, value.end)
                items == Append(acc, value.val)
            IN IF At(s, e) = "]"
               THEN Scanned([kind |-> "list", items |-> items], e + 1)
               ELSE IF At(s, e) # "," THEN DecodeError
               ELSE ScanElements(s, SkipWs(s, e + 1), items)

\* json.loads(s): one value between optional whitespace, nothing after it.
\* (RecursionError and the integer-digit limit need inputs far longer than
\* any the model draws.)
Loads(s) ==
    LET r == ScanOnce(s, SkipWs(s, 1))
    IN IF r.ok /\ SkipWs(s, r.end) = Len(s) + 1 THEN r ELSE DecodeError

(***************************************************************************)
(* TisMongoDBComponent                                                     *)
(***************************************************************************)
\* user_input when the field is not set
None == <<"None">>

\* The exceptions the two try blocks of _detect_intent catch.
CaughtNothing == {}

CaughtByDetectIntent == {"JSONDecodeError"}

\* try: json_data = json.loads(user_input); return "store", json_data
\* except json.JSONDecodeError: pass -- the outcome of one such block
TryLoads(text) ==
    LET r == Loads(text)
    IN IF r.ok THEN [returned |-> TRUE, raised |-> FALSE, val |-> r.val]
       ELSE [returned |-> FALSE,
             raised |-> "JSONDecodeError" \notin CaughtByDetectIntent,
             val |-> NoneValue]

\* _detect_intent(user_input) -> (intent, payload), or an exception
DetectIntent(user_input) ==
    IF user_input = None \/ user_input = <<>> \/ Strip(user_input) = <<>>
    THEN [intent |-> "empty", payload |-> NoneValue, raised |-> FALSE]
    ELSE LET text == Strip(user_input)
             braces == IF text[1] = "{" /\ text[Len(text)] = "}"
                       THEN TryLoads(text)
                       ELSE [returned |-> FALSE, raised |-> FALSE,
                             val |-> NoneValue]
             plain == TryLoads(text)
         IN IF braces.returned
            THEN [intent |-> "store", payload |-> braces.val,
                  raised |-> FALSE]
            ELSE IF braces.raised
            THEN [intent |-> "none", payload |-> NoneValue, raised |-> TRUE]
            ELSE IF plain.returned
            THEN [intent |-> "store", payload |-> plain.val,
                  raised |-> FALSE]
            ELSE IF plain.raised
            THEN [intent |-> "none", payload |-> NoneValue, raised |-> TRUE]
            ELSE [intent |-> "search", payload |-> TextValue(text),
                  raised |-> FALSE]

(***************************************************************************)
(* Text renderings of a parsed value                                       *)
(***************************************************************************)
RECURSIVE Flatten(_)
\* "".join(parts)
Flatten(parts) ==
    IF parts = <<>> THEN <<>> ELSE Head(parts) \o Flatten(Tail(parts))

RECURSIVE Join(_, _)
\* sep.join(parts)
Join(sep, parts) ==
    IF parts = <<>> THEN <<>>
    ELSE IF Len(parts) = 1 THEN parts[1]
    ELSE parts[1] \o sep \o Join(sep, Tail(parts))

\* The text Python prints for a JSON constant, and the text json.dumps writes.
ConstantStr(lit) ==
    CASE lit = <<"t", "r", "u", "e">> -> <<"T", "r", "u", "e">>
      [] lit = <<"f", "a", "l", "s", "e">> -> <<"F", "a", "l", "s", "e">>
      [] lit = <<"n", "u", "l", "l">> -> <<"N", "o", "n", "e">>
      [] lit = <<"N", "a", "N">> -> <<"n", "a", "n">>
      [] OTHER -> <<"i", "n", "f">>

RECURSIVE Repr(_)
\* repr(value): strings in single quotes (the alphabet has no quote to escape)
Repr(v) ==
    CASE v.kind = "str" -> <<"'">> \o v.s \o <<"'">>
      [] v.kind = "int" -> v.s
      [] v.kind = "const" -> ConstantStr(v.s)
      [] v.kind = "list" ->
           <<"[">> \o Join(<<",", " ">>,
                           [n \in 1..Len(v.items) |-> Repr(v.items[n])])
                   \o <<"]">>
      [] v.kind = "dict" ->
           <<"{">> \o Join(<<",", " ">>,
                           [n \in 1..Len(v.items) |->
                               <<"'">> \o v.items[n].k \o <<"'", ":", " ">>
                                       \o Repr(v.items[n].v)])
                   \o <<"}">>
      [] OTHER -> <<"N", "o", "n", "e">>

\* str(value), as an f-string renders it
Str(v) == IF v.kind = "str" THEN v.s ELSE Repr(v)

RECURSIVE Dumps(_)
\* json.dumps(value, default=str)
Dumps(v) ==
    CASE v.kind = "str" -> <<"\"">> \o v.s \o <<"\"">>
      [] v.kind = "int" -> v.s
      [] v.kind = "const" -> v.s
      [] v.kind = "list" ->
           <<"[">> \o Join(<<",", " ">>,
                           [n \in 1..Len(v.items) |-> Dumps(v.items[n])])
                   \o <<"]">>
      [] v.kind = "dict" ->
           <<"{">> \o Join(<<",", " ">>,
                           [n \in 1..Len(v.items) |->
                               <<"\"">> \o v.items[n].k \o <<"\"", ":", " ">>
                                        \o Dumps(v.items[n].v)])
                   \o <<"}">>
      [] OTHER -> <<"n", "u", "l", "l">>

\* text in container
Contains(text, w) ==
    \E i \in 0..(Len(text) - Len(w)) : SubSeq(text, i + 1, i + Len(w)) = w

\* json_data[key] of a dict
Get(d, key) ==
    LET n == CHOOSE n \in 1..Len(d.items) : d.items[n].k = key
    IN d.items[n].v

\* key in json_data: a key of a dict, an element of a list, a substring of a
\* string; TypeError ("raise") for a number, a boolean or None.
In(key, v) ==
    CASE v.kind = "dict" ->
           IF \E n \in 1..Len(v.items) : v.items[n].k = key
           THEN "yes" ELSE "no"
      [] v.kind = "list" ->
           IF \E n \in 1..Len(v.items) : v.items[n] = TextValue(key)
           THEN "yes" ELSE "no"
      [] v.kind = "str" -> IF Contains(v.s, key) THEN "yes" ELSE "no"
      [] OTHER -> "raise"

\* The recognised keys with their labels, in the order of the if statements.
ContentKeys ==
    << [key |-> <<"t", "i", "t", "l", "e">>,
        label |-> <<"T", "i", "t", "l", "e", ":", " ">>],
       [key |-> <<"d", "e", "s", "c", "r", "i", "p", "t", "i", "o", "n">>,
        label |-> <<"D", "e", "s", "c", "r", "i", "p", "t", "i", "o", "n",
                    ":", " ">>],
       [key |-> <<"c", "o", "d", "e">>,
        label |-> <<"C", "o", "d", "e", ":", " ">>],
       [key |-> <<"c", "o", "n", "t", "e", "n", "t">>,
        label |-> <<"C", "o", "n", "t", "e", "n", "t", ":", " ">>],
       [key |-> <<"l", "a", "n", "g", "u", "a", "g", "e">>,
        label |-> <<"L", "a", "n", "g", "u", "a", "g", "e", ":", " ">>],
       [key |-> <<"t", "a", "g", "s">>,
        label |-> <<"T", "a", "g", "s", ":", " ">>] >>

TagsKey == <<"t", "a", "g", "s">>

\* ', '.join(tags) if isinstance(tags, list) else tags; the join raises
\* TypeError when an element is not a string.
TagsText(v) ==
    IF v.kind = "list"
    THEN IF \A n \in 1..Len(v.items) : v.items[n].kind = "str"
         THEN [raised |-> FALSE,
               text |-> Join(<<",", " ">>,
                             [n \in 1..Len(v.items) |-> v.items[n].s])]
         ELSE [raised |-> TRUE, text |-> <<>>]
    ELSE [raised |-> FALSE, text |-> Str(v)]

\* One "if key in json_data: content_parts.append(...)" statement: the part
\* it appends (<<>> for none), or the exception of the lookup.
ContentPart(json_data, n) ==
    LET key == ContentKeys[n].key
        has == In(key, json_data)
    IN IF has = "raise" \/ (has = "yes" /\ json_data.kind # "dict")
       THEN [raised |-> TRUE, parts |-> <<>>]
       ELSE IF has = "no" THEN [raised |-> FALSE, parts |-> <<>>]
       ELSE IF key = TagsKey
       THEN LET t == TagsText(Get(json_data, key))
            IN [raised |-> t.raised,
                parts |-> << ContentKeys[n].label \o t.text >>]
       ELSE [raised |-> FALSE,
             parts |-> << ContentKeys[n].label \o Str(Get(json_data, key)) >>]

\* the raw serialization for every mapping, recognised keys or not
SerializedContent(json_data) == [raised |-> FALSE, content |-> Dumps(json_data)]

\* _extract_content(json_data) -> str, or an exception
ExtractContent(json_data) ==
    LET part == [n \in 1..Len(ContentKeys) |-> ContentPart(json_data, n)]
        content_parts == Flatten([n \in 1..Len(ContentKeys) |-> part[n].parts])
    IN IF \E n \in 1..Len(ContentKeys) : part[n].raised
       THEN [raised |-> TRUE, content |-> <<>>]
       ELSE [raised |-> FALSE,
             content |-> Join(<<" ", "|", " ">>,
                              IF content_parts = <<>>
                              THEN << Dumps(json_data) >>
                              ELSE content_parts)]

(***************************************************************************)
(* The {'$regex': query, '$options': 'i'} conditions.  Of the pattern      *)
(* syntax the queries of the model can hold groups "(...)" and alternation *)
(* "|"; every other character of theirs matches itself.  A pattern without *)
(* repetition denotes a finite set of words and matches a text that        *)
(* contains one of them, letter case ignored.                              *)
(***************************************************************************)
Upper == <<"A", "B", "C", "D", "E", "F", "G", "H", "I", "J", "K", "L", "M",
           "N", "O", "P", "Q", "R", "S", "T", "U", "V", "W", "X", "Y", "Z">>

Lowers == <<"a", "b", "c", "d", "e", "f", "g", "h", "i", "j", "k", "l", "m",
            "n", "o", "p", "q", "r", "s", "t", "u", "v", "w", "x", "y", "z">>

LowerChar(c) ==
    IF \E n \in 1..Len(Upper) : Upper[n] = c
    THEN Lowers[CHOOSE n \in 1..Len(Upper) : Upper[n] = c]
    ELSE c

Lower(s) == [n \in 1..Len(s) |-> LowerChar(s[n])]

\* Characters a query may hold for RegexCompile to be its model.
PatternChars ==
    {Lowers[n] : n \in 1..Len(Lowers)} \cup {Upper[n] : n \in 1..Len(Upper)}
        \cup Digits \cup {" ", ":", "|", "(", ")"}

BadPattern == [ok |-> FALSE, words |-> {}, end |-> 0]

RECURSIVE RegexAlternation(_, _), RegexSequence(_, _, _)
\* alternatives separated by "|", from p[i] to a ")" or the end
RegexAlternation(p, i) ==
    LET first == RegexSequence(p, i, {<<>>})
    IN IF ~first.ok THEN BadPattern
       ELSE IF At(p, first.end) = "|"
       THEN LET rest == RegexAlternation(p, first.end + 1)
            IN IF ~rest.ok THEN BadPattern
               ELSE [ok |-> TRUE, words |-> first.words \cup rest.words,
                     end |-> rest.end]
       ELSE first

\* a sequence of characters and groups; acc holds the words read so far
RegexSequence(p, i, acc) ==
    LET c == At(p, i)
    IN IF c \in {"", "|", ")"} THEN [ok |-> TRUE, words |-> acc, end |-> i]
       ELSE IF c = "("
       THEN LET group == RegexAlternation(p, i + 1)
            IN IF ~group.ok \/ At(p, group.end) # ")" THEN BadPattern
               ELSE RegexSequence(p, group.end + 1,
                        {a \o g : a \in acc, g \in group.words})
       ELSE RegexSequence(p, i + 1, {Append(a, LowerChar(c)) : a \in acc})

\* The words of pattern p; ok = FALSE when the server rejects the pattern
\* (a parenthesis without its partner).
RegexCompile(p) ==
    LET r == RegexAlternation(p, 1)
    IN IF r.ok /\ r.end = Len(p) + 1 THEN r ELSE BadPattern

\* {field: {'$regex': p, '$options': 'i'}} on a string value
RegexMatches(p, text) ==
    \E w \in RegexCompile(p).words : Contains(Lower(text), w)

\* longest input the classifier is run on exhaustively
MaxLen == 3

\* The characters of the exhaustive inputs.
Alphabet == {" ", "{", "}", "[", "]", "\"", ":", ",", "1", "a"}

Texts(n) == UNION {[1..k -> Alphabet] : k \in 0..n}

\* {"a":1}   {"a": [1]}   true   null   [1,2]   42   weather api
LongerInputs ==
    { <<"{", "\"", "a", "\"", ":", "1", "}">>,
      <<"{", "\"", "a", "\"", ":", " ", "[", "1", "]", "}">>,
      <<"t", "r", "u", "e">>,
      <<"n", "u", "l", "l">>,
      <<"[", "1", ",", "2", "]">>,
      <<"4", "2">>,
      <<"{", "\"", "a", "\"", ":", "1", ",", "}">>,
      <<" ", "{", "}", " ", " ">>,
      <<"w", "e", "a", "t", "h", "e", "r", " ", "a", "p", "i">> }

IntentInputs == Texts(MaxLen) \cup LongerInputs \cup {None}

MgIdle ==
    [pc |-> "idle", user_input |-> None, intent |-> "none",
     payload |-> NoneValue, raised |-> FALSE]

MgInit == mg = MgIdle

\* One call of _detect_intent on a drawn input.
Detect ==
    /\ mg.pc = "idle"
    /\ \E input \in IntentInputs :
          LET r == DetectIntent(input)
          IN mg' = [pc |-> "detected", user_input |-> input,
                    intent |-> r.intent, payload |-> r.payload,
                    raised |-> r.raised]
    /\ UNCHANGED <<conf, db, seq, wr, calls, mongo, rd, vs, cv, rl>>

IntentNext == Detect

(***************************************************************************)
(* TisMongoDBComponent.smart_operation against one collection              *)
(***************************************************************************)
\* smart_operation calls in one behaviour
MaxOps == 2

\* search_limit: StrInput value="5"
DefaultSearchLimit == 5

SearchLimits == {0, 1, DefaultSearchLimit}

\* Inputs that reach the store path:
\*   {"title": "Hello", "code": "print(1)"}
\*   {"code": "print(1)", "title": "Hello"}
\*   {"note": "x"}
\*   {}
\*   {"tags": ["a", "b"], "language": 1}
\*   {"tags": [1]}
\*   [1, 2]
\*   42
StoreInputs ==
    {
      <<"{", "\"", "t", "i", "t", "l", "e", "\"", ":", " ", "\"", "H", "e",
        "l", "l", "o", "\"", ",", " ", "\"", "c", "o", "d", "e", "\"", ":",
        " ", "\"", "p", "r", "i", "n", "t", "(", "1", ")", "\"", "}">>,
      <<"{", "\"", "c", "o", "d", "e", "\"", ":", " ", "\"", "p", "r", "i",
        "n", "t", "(", "1", ")", "\"", ",", " ", "\"", "t", "i", "t", "l",
        "e", "\"", ":", " ", "\"", "H", "e", "l", "l", "o", "\"", "}">>,
      <<"{", "\"", "n", "o", "t", "e", "\"", ":", " ", "\"", "x", "\"",
        "}">>,
      <<"{", "}">>,
      <<"{", "\"", "t", "a", "g", "s", "\"", ":", " ", "[", "\"", "a",
        "\"", ",", " ", "\"", "b", "\"", "]", ",", " ", "\"", "l", "a",
        "n", "g", "u", "a", "g", "e", "\"", ":", " ", "1", "}">>,
      <<"{", "\"", "t", "a", "g", "s", "\"", ":", " ", "[", "1", "]", "}">>,
      <<"[", "1", ",", " ", "2", "]">>,
      <<"4", "2">> }

\* Free-text inputs:  'weather api'   'hello'   ' '
QueryInputs ==
    {
      <<"w", "e", "a", "t", "h", "e", "r", " ", "a", "p", "i">>,
      <<"h", "e", "l", "l", "o">>,
      <<" ">> }

\* The metadata fields _search_documents puts a $regex condition on.
SearchedMetadataKeys ==
    { <<"t", "i", "t", "l", "e">>,
      <<"d", "e", "s", "c", "r", "i", "p", "t", "i", "o", "n">>,
      <<"c", "o", "d", "e">>, <<"t", "a", "g", "s">>,
      <<"l", "a", "n", "g", "u", "a", "g", "e">>,
      <<"c", "a", "t", "e", "g", "o", "r", "y">>, <<"t", "y", "p", "e">> }

NoResult == [kind |-> "none", ids |-> <<>>, query |-> <<>>, cause |-> ""]

\* Message(text=...) of smart_operation, by the text's template
Failure(cause) == [NoResult EXCEPT !.kind = "error", !.cause = cause]

NoStatus == [kind |-> "ready", n |-> 0, query |-> <<>>]

NothingStored == [mapping |-> FALSE, _id |-> 0, content |-> <<>>]

MongoIdle ==
    [collection |-> <<>>, _client |-> "None", _status_message |-> NoStatus,
     _operation_type |-> "unknown", search_limit |-> DefaultSearchLimit,
     ops |-> 0, user_input |-> None, up |-> TRUE, result |-> NoResult,
     stored |-> NothingStored, before |-> NothingStored, had |-> <<>>]

MongoInit ==
    \E limit \in SearchLimits : mongo = [MongoIdle EXCEPT !.search_limit = limit]

\* _get_client: self._client is assigned before the ping, and a cached client
\* is returned without a ping.
GetClient(client, up) ==
    IF client = "None"
    THEN IF up THEN [raised |-> FALSE, client |-> "verified"]
         ELSE [raised |-> TRUE, client |-> "unverified"]
    ELSE [raised |-> FALSE, client |-> client]

\* A $regex condition on a metadata field: a string value, or an array with a
\* string element, that the pattern matches.
MetadataMatches(p, metadata) ==
    /\ metadata.kind = "dict"
    /\ \E n \in 1..Len(metadata.items) :
          /\ metadata.items[n].k \in SearchedMetadataKeys
          /\ LET v == metadata.items[n].v
             IN \/ v.kind = "str" /\ RegexMatches(p, v.s)
                \/ /\ v.kind = "list"
                   /\ \E e \in 1..Len(v.items) :
                         /\ v.items[e].kind = "str"
                         /\ RegexMatches(p, v.items[e].s)

\* the {'$or': search_conditions} query
Matches(p, doc) ==
    RegexMatches(p, doc.content) \/ MetadataMatches(p, doc.metadata)

RECURSIVE Newest(_, _)
\* find(query).sort('created_at', -1): the collection holds its documents in
\* the order of their created_at
Newest(docs, p) ==
    IF docs = <<>> THEN <<>>
    ELSE LET d == docs[Len(docs)]
             rest == Newest(SubSeq(docs, 1, Len(docs) - 1), p)
         IN IF Matches(p, d) THEN <<d>> \o rest ELSE rest

\* cursor.limit(n): 0 means no limit
Limit(docs, n) == IF n = 0 \/ Len(docs) <= n THEN docs ELSE SubSeq(docs, 1, n)

\* Python truth value of a parsed value
Truthy(v) ==
    CASE v.kind = "str" -> v.s # <<>>
      [] v.kind = "int" -> v.s # <<"0">>
      [] v.kind \in {"list", "dict"} -> v.items # <<>>
      [] v.kind = "const" ->
           v.s \notin {<<"f", "a", "l", "s", "e">>, <<"n", "u", "l", "l">>}
      [] OTHER -> FALSE

\* _format_search_results raises on a result whose metadata has no get(), or
\* whose tags cannot be joined.
FormatRaises(doc) ==
    \/ doc.metadata.kind # "dict"
    \/ /\ In(TagsKey, doc.metadata) = "yes"
       /\ LET tags == Get(doc.metadata, TagsKey)
          IN /\ Truthy(tags)
             /\ \/ tags.kind \in {"int", "const"}
                \/ /\ tags.kind = "list"
                   /\ \E n \in 1..Len(tags.items) : tags.items[n].kind # "str"

\* _store_document(json_data) on the component self, with smart_operation's
\* handler around it: the component after the call.
StoreDocument(self, json_data, up) ==
    LET got == GetClient(self._client, up)
        extracted == ExtractContent(json_data)
        id == Len(self.collection) + 1
        doc == [_id |-> id, content |-> extracted.content,
                metadata |-> json_data, created_at |-> self.ops]
        failed(cause) ==
            [self EXCEPT !._client = got.client,
                         !._status_message =
                             [NoStatus EXCEPT !.kind = "error_storing"],
                         !.result = Failure(cause)]
    IN IF got.raised THEN failed("connection")
       ELSE IF extracted.raised THEN failed("content")
       ELSE IF ~up THEN failed("insert")
       ELSE [self EXCEPT !._client = got.client,
                         !.collection = Append(@, doc),
                         !._status_message =
                             [NoStatus EXCEPT !.kind = "stored", !.n = id],
                         !.result = [NoResult EXCEPT !.kind = "stored",
                                                     !.ids = <<id>>],
                         !.stored = [mapping |-> json_data.kind = "dict",
                                     _id |-> id,
                                     content |-> extracted.content]]

\* _search_documents(search_query) and _format_search_results on the
\* component self, with smart_operation's handler around them.
SearchDocuments(self, search_query, up) ==
    LET got == GetClient(self._client, up)
        results == Limit(Newest(self.collection, search_query),
                         self.search_limit)
        failed(cause) ==
            [self EXCEPT !._client = got.client,
                         !._status_message =
                             [NoStatus EXCEPT !.kind = "error_searching"],
                         !.result = Failure(cause)]
        found == [self EXCEPT !._client = got.client,
                              !._status_message =
                                  [kind |-> "found", n |-> Len(results),
                                   query |-> search_query]]
    IN IF got.raised THEN failed("connection")
       ELSE IF ~up THEN failed("find")
       ELSE IF ~RegexCompile(search_query).ok THEN failed("regex")
       ELSE IF results = <<>>
       THEN [found EXCEPT !.result = [NoResult EXCEPT !.kind = "not_found",
                                                     !.query = search_query]]
       ELSE IF \E n \in 1..Len(results) : FormatRaises(results[n])
       THEN [found EXCEPT !.result = Failure("format")]
       ELSE [found EXCEPT !.result =
                 [NoResult EXCEPT !.kind = "found",
                                  !.ids = [n \in 1..Len(results) |->
                                              results[n]._id],
                                  !.query = search_query]]

\* Substrings of the stored contents that are patterns RegexCompile models.
ContentQueries ==
    UNION { {SubSeq(mongo.collection[d].content, a, b) :
                 a \in 1..Len(mongo.collection[d].content),
                 b \in 1..Len(mongo.collection[d].content)}
            : d \in 1..Len(mongo.collection) }

MongoInputs ==
    StoreInputs \cup QueryInputs \cup {None}
        \cup {t \in ContentQueries :
                 t # <<>> /\ \A n \in 1..Len(t) : t[n] \in PatternChars}

\* smart_operation() of the component self with user_input = input; up:
\* whether the server answers during the call.  The component after the call;
\* stored and before record what this call and the one before it wrote, had
\* the collection as the call found it.
SmartOperationOn(self, input, up) ==
    LET detected == DetectIntent(input)
        begun == [self EXCEPT !.ops = @ + 1, !.user_input = input,
                              !.up = up, !.had = self.collection,
                              !.before = self.stored,
                              !.stored = NothingStored]
        typed == [begun EXCEPT !._operation_type = detected.intent]
    IN IF detected.raised
       THEN [begun EXCEPT !.result = Failure("detect")]
       ELSE IF detected.intent = "empty"
       THEN [typed EXCEPT !.result = [NoResult EXCEPT !.kind = "prompt"]]
       ELSE IF detected.intent = "store"
       THEN StoreDocument(typed, detected.payload, up)
       ELSE SearchDocuments(typed, detected.payload.s, up)

SmartOperation ==
    /\ mongo.ops < MaxOps
    /\ \E input \in MongoInputs, up \in BOOLEAN :
          mongo' = SmartOperationOn(mongo, input, up)
    /\ UNCHANGED <<conf, db, seq, wr, calls, mg, rd, vs, cv, rl>>

MongoNext == SmartOperation

(***************************************************************************)
(* TisRedisComponent.get_value and                                         *)
(* TisRedisChatStorageComponent.build_message_history against one server   *)
(***************************************************************************)
\* calls of the two Redis components in one behaviour
MaxRedisOps == 2

\* self.key
Keys == {<<>>, <<" ">>, <<"k">>, <<" ", "k", " ">>, <<"a">>}

\* self.redis_db: a StrInput
Databases == {<<"0">>, <<"1">>, <<"x">>}

\* What database 0 of the server holds under the key k: nothing, the empty
\* string, or a string.  Every other key and database is empty.
StoredValues == {None, <<>>, <<"v">>}

\* session_id values
Sessions == {"s1", "s2"}

\* message contents of build_message_history
Contents == {<<"h", "i">>, <<"y", "o">>}

NoCall ==
    [op |-> "none", key |-> <<>>, redis_db |-> <<>>, up |-> TRUE,
     outcome |-> "none", text |-> <<>>, logged |-> "none"]

RedisIdle ==
    [redis |-> TRUE, k |-> None, history |-> [session_id \in Sessions |-> <<>>],
     ops |-> 0, last |-> NoCall]

RdInit == rd = RedisIdle

RedisInit ==
    \E module \in BOOLEAN, value \in StoredValues :
        rd = [RedisIdle EXCEPT !.redis = module, !.k = value]

\* int(self.redis_db)
IntOf(s) ==
    LET t == Strip(s)
    IN IF t # <<>> /\ \A n \in 1..Len(t) : t[n] \in Digits
       THEN [raised |-> FALSE, s |-> t]
       ELSE [raised |-> TRUE, s |-> <<>>]

\* redis_client.get(key) on the database of that index
RedisGet(index, key) == IF index = <<"0">> /\ key = <<"k">> THEN rd.k ELSE None

\* Message(text=...) with what the call logged
Returned(text, logged) ==
    [outcome |-> "message", text |-> text, logged |-> logged]

\* the except branch returning what it logged
GetValueFailedWithText == Returned(<<"Redis GET failed">>, "error")

\* the except branch of get_value: the message is logged, not returned
GetValueFailed == Returned(<<>>, "error")

\* get_value() with self.key = key and self.redis_db = redis_db; up: whether
\* the server answers.
GetValue ==
    /\ rd.ops < MaxRedisOps
    /\ \E key \in Keys, redis_db \in Databases, up \in BOOLEAN :
         LET index == IntOf(redis_db)
             value == RedisGet(index.s, Strip(key))
             result ==
                 IF ~rd.redis
                 THEN Returned(<<"Redis not available">>, "none")
                 ELSE IF Strip(key) = <<>>
                 THEN Returned(<<"No key provided">>, "none")
                 ELSE IF index.raised \/ ~up THEN GetValueFailed
                 ELSE IF value # None /\ value # <<>>
                 THEN Returned(value, "info")
                 ELSE Returned(<<>>, "info")
         IN rd' = [rd EXCEPT !.ops = @ + 1,
                             !.last = [op |-> "get_value", key |-> key,
                                       redis_db |-> redis_db, up |-> up,
                                       outcome |-> result.outcome,
                                       text |-> result.text,
                                       logged |-> result.logged]]
    /\ UNCHANGED <<conf, db, seq, wr, calls, mg, mongo, vs, cv, rl>>

\* HumanMessage(content, session_id, sender=MESSAGE_SENDER_USER,
\*              sender_name=MESSAGE_SENDER_NAME_USER)
HumanMessage(content, session_id) ==
    [type |-> "human", content |-> content, session_id |-> session_id,
     sender |-> "MESSAGE_SENDER_USER",
     sender_name |-> "MESSAGE_SENDER_NAME_USER"]

\* AIMessage(content, session_id, sender=MESSAGE_SENDER_AI,
\*           sender_name=MESSAGE_SENDER_NAME_AI)
AIMessage(content, session_id) ==
    [type |-> "ai", content |-> content, session_id |-> session_id,
     sender |-> "MESSAGE_SENDER_AI", sender_name |-> "MESSAGE_SENDER_NAME_AI"]

\* build_message_history() with self.session_id = session_id: two add_message
\* calls, the user's message first, with nothing around them to catch a
\* failure.  up1, up2: whether the server answers each of them.
BuildMessageHistory ==
    /\ rd.ops < MaxRedisOps
    /\ \E session_id \in Sessions, content \in Contents, reply \in Contents,
          up1 \in BOOLEAN, up2 \in BOOLEAN :
         LET ai_message == AIMessage(reply, session_id)
             user_message == HumanMessage(content, session_id)
             added == IF ~up1 THEN <<>>
                      ELSE IF ~up2 THEN <<user_message>>
                      ELSE <<user_message, ai_message>>
         IN rd' = [rd EXCEPT !.ops = @ + 1,
                             !.history[session_id] = @ \o added,
                             !.last = [NoCall EXCEPT
                                 !.op = "build_message_history",
                                 !.up = up1 /\ up2,
                                 !.outcome = IF up1 /\ up2 THEN "memory"
                                             ELSE "raised"]]
    /\ UNCHANGED <<conf, db, seq, wr, calls, mg, mongo, vs, cv, rl>>

RedisNext == GetValue \/ BuildMessageHistory

(***************************************************************************)
(* TisMessageToDataComponent.convert                                       *)
(***************************************************************************)
\* self.message: not set, or a Message with this text
MessageInputs == IntentInputs

\* Data(data={})
EmptyData == [kind |-> "dict", items |-> <<>>]

\* Data(data={"text": message_text})
TextData(message_text) ==
    [kind |-> "dict",
     items |-> << [k |-> <<"t", "e", "x", "t">>, v |-> TextValue(message_text)] >>]

\* a converter that hands on whatever json.loads gives
IsAnyValue(parsed) == TRUE

\* isinstance(parsed, dict)
IsDict(parsed) == parsed.kind = "dict"

\* convert(): the Data it returns, or the exception json.loads raises past
\* "except json.JSONDecodeError" (none for the inputs of the model).
Convert(message) ==
    IF message = None \/ message = <<>>
    THEN [raised |-> FALSE, data |-> EmptyData]
    ELSE LET parsed == Loads(message)
         IN IF parsed.ok /\ IsDict(parsed.val)
            THEN [raised |-> FALSE, data |-> parsed.val]
            ELSE [raised |-> FALSE, data |-> TextData(message)]

ConvertIdle == [pc |-> "idle", message |-> None, raised |-> FALSE,
                data |-> NoneValue]

\* One call of convert on a drawn message.
ConvertCall ==
    /\ cv.pc = "idle"
    /\ \E message \in MessageInputs :
          LET r == Convert(message)
          IN cv' = [pc |-> "converted", message |-> message,
                    raised |-> r.raised, data |-> r.data]
    /\ UNCHANGED <<conf, db, seq, wr, calls, mg, mongo, rd, vs, rl>>

ConvertNext == ConvertCall

(***************************************************************************)
(* reload_components: POST /api/v1/reload-components                       *)
(***************************************************************************)
MaxReloads == 3

MaxEdits == 1

\* requests served concurrently by the event loop
Requests == {"r1", "r2"}

\* what a step of the handler may do: finish, or raise an Exception
StepOutcomes == {"done", "raise"}

\* str(e) of the exception a step raised
ErrorTexts == [constructor |-> "cache error", loader |-> "load error"]

\* all_types_dict of a cache: None, or the components as read from the
\* disk in the given state
NoTypes == <<>>

TypesRead(disk) == <<disk>>

\* a reload that leaves the cache object in place
SameCache(id) == rl.cache

\* components.ComponentCache(): a new cache object holding nothing
FreshCache(id) == [id |-> id, all_types_dict |-> NoTypes]

\* the host's get_and_cache_all_types_dict reads the disk only when the
\* module's component_cache holds nothing
MustLoad(cache) == cache.all_types_dict = NoTypes

NoResponse == [status_code |-> 0, status |-> "", text |-> ""]

\* ReloadStatusResponse(status="success", ...), answered with 200
SuccessResponse ==
    [status_code |-> 200, status |-> "success",
     text |-> "Components refreshed successfully."]

\* HTTPException(status_code=500, detail=f"Failed to refresh components: ...")
FailureResponse(cause) ==
    [status_code |-> 500, status |-> "",
     text |-> "Failed to refresh components: " \o cause]

\* A request: where its handler stands, the cache it installed and what the
\* loader found in it, the state of the disk when the read began, what the
\* cache held when the handler answered, and the answer.
RequestIdle ==
    [pc |-> "idle", replaced |-> FALSE, installed |-> 0,
     found_empty |-> FALSE, snapshot |-> 0, loaded |-> FALSE, failed |-> "",
     cached |-> NoTypes, response |-> NoResponse]

\* The process after start-up: the host has loaded the components once.
ReloadIdle ==
    [cache |-> [id |-> 0, all_types_dict |-> TypesRead(0)], next_id |-> 1, disk |-> 0,
     reloads |-> 0, req |-> [r \in Requests |-> RequestIdle]]

\* A component file is changed on disk.
EditComponents ==
    /\ rl.disk < MaxEdits
    /\ rl' = [rl EXCEPT !.disk = @ + 1]
    /\ UNCHANGED <<conf, db, seq, wr, calls, mg, mongo, rd, vs, cv>>

\* A request arrives.  The handler runs without suspending from the
\* replacement of the cache up to the await inside the host's loader: the
\* cache is replaced, the loader tests it, and the read of the component
\* files begins.  A cache found holding something is returned as it is.
ReloadBegin(r) ==
    /\ rl.req[r].pc \in {"idle", "answered"}
    /\ rl.reloads < MaxReloads
    /\ \E outcome \in StepOutcomes :
          LET began == [RequestIdle EXCEPT !.pc = "loading"]
              cache == FreshCache(rl.next_id)
          IN IF outcome = "raise"
             THEN rl' = [rl EXCEPT
                           !.reloads = @ + 1,
                           !.req[r] = [began EXCEPT
                               !.pc = "answered",
                               !.failed = ErrorTexts.constructor,
                               !.response =
                                   FailureResponse(ErrorTexts.constructor)]]
             ELSE IF MustLoad(cache)
             THEN rl' = [rl EXCEPT
                           !.reloads = @ + 1,
                           !.cache = cache,
                           !.next_id = @ + 1,
                           !.req[r] = [began EXCEPT
                               !.replaced = cache.id = rl.next_id,
                               !.installed = cache.id,
                               !.found_empty = TRUE,
                               !.snapshot = rl.disk]]
             ELSE rl' = [rl EXCEPT
                           !.reloads = @ + 1,
                           !.cache = cache,
                           !.next_id = @ + 1,
                           !.req[r] = [began EXCEPT
                               !.pc = "answered",
                               !.replaced = cache.id = rl.next_id,
                               !.installed = cache.id,
                               !.cached = cache.all_types_dict,
                               !.response = SuccessResponse]]
    /\ UNCHANGED <<conf, db, seq, wr, calls, mg, mongo, rd, vs, cv>>

\* The read of the component files ends: the loader stores what it read
\* (the files as they were at some moment of the read) in the cache the
\* module names now, and the handler answers; or the read raised and the
\* handler answers 500.
LoadEnd(r) ==
    /\ rl.req[r].pc = "loading"
    /\ \E outcome \in StepOutcomes, read \in rl.req[r].snapshot..rl.disk :
          IF outcome = "raise"
          THEN rl' = [rl EXCEPT
                        !.req[r].pc = "answered",
                        !.req[r].failed = ErrorTexts.loader,
                        !.req[r].response =
                            FailureResponse(ErrorTexts.loader)]
          ELSE rl' = [rl EXCEPT
                        !.cache.all_types_dict = TypesRead(read),
                        !.req[r].pc = "answered",
                        !.req[r].snapshot = read,
                        !.req[r].loaded = TRUE,
                        !.req[r].cached = TypesRead(read),
                        !.req[r].response = SuccessResponse]
    /\ UNCHANGED <<conf, db, seq, wr, calls, mg, mongo, rd, vs, cv>>

ReloadNext ==
    \/ EditComponents
    \/ \E r \in Requests : ReloadBegin(r)
    \/ \E r \in Requests : LoadEnd(r)

(***************************************************************************)
(* TisVectorStore.similarity_search and TisPGVectorComponent's             *)
(* search_documents over a committed corpus                                *)
(***************************************************************************)
\* most documents in the corpus a search runs over
MaxCorpus == 2

\* search calls in one behaviour
MaxSearches == 2

\* number_of_results: IntInput value=4
DefaultNumberOfResults == 4

\* k of similarity_search, number_of_results of the component
Ks == {0, 1, DefaultNumberOfResults}

\* self.search_query: blank, or text
SearchQueries == {<<>>, <<" ">>, <<"q">>}

\* Embedding vectors of the corpus and of the queries
Vectors == {<<1, 0>>, <<0, 1>>, <<1, 1>>, <<-1, 0>>}

\* What can go wrong in a call: nothing, psycopg2.connect, the embedding model
Faults == {"none", "connect", "embed"}

Dot(a, b) == a[1] * b[1] + a[2] * b[2]

\* (e.embedding <=> q) <= (f.embedding <=> q) for the cosine distance
\* 1 - a.q / (|a| |q|) of pgvector, in integers: a.q / |a| >= b.q / |b|.
CloserOrEqual(a, b, q) ==
    LET x == Dot(a, q)
        y == Dot(b, q)
    IN IF x >= 0 /\ y <= 0 THEN TRUE
       ELSE IF x < 0 /\ y >= 0 THEN FALSE
       ELSE IF x >= 0 THEN x * x * Dot(b, b) >= y * y * Dot(a, a)
       ELSE x * x * Dot(b, b) <= y * y * Dot(a, a)

\* FROM embeddings e JOIN documents d ON e.document_id = d.id
Joined ==
    {e \in db.embeddings : \E d \in db.documents : d.id = e.document_id}

\* The orders a set of rows can come back in.
Orderings(rows) ==
    {f \in [1..Cardinality(rows) -> rows] :
        \A i, j \in 1..Cardinality(rows) : i # j => f[i] # f[j]}

\* a result without ORDER BY
Unsorted(f, q) == TRUE

\* ORDER BY distance
Sorted(f, q) ==
    \A i, j \in 1..Len(f) :
        i < j => CloserOrEqual(f[i].embedding, f[j].embedding, q)

\* The results the SELECT ... ORDER BY distance LIMIT k can give; rows at the
\* same distance come in any order.
Selected(q, k) ==
    {SubSeq(f, 1, Min(k, Len(f))) :
        f \in {g \in Orderings(Joined) : Sorted(g, q)}}

\* a search that goes straight to the SELECT
NoCountCheck(embedding_count) == "none"

\* if embedding_count == 0: raise Exception("No embeddings found in ...")
CountCheck(embedding_count) ==
    IF embedding_count = 0 THEN "no_embeddings" ELSE "none"

NoSearch ==
    [op |-> "none", blank |-> FALSE, k |-> 0, fault |-> "none",
     query_embedding |-> <<>>, outcome |-> "none", cause |-> "", rows |-> <<>>,
     debug_info |-> FALSE]

\* TisPGVectorComponent before its first call
VectorIdle ==
    [_cached_vector_store |-> FALSE,
     number_of_results |-> DefaultNumberOfResults,
     status |-> [kind |-> "none", n |-> 0, cause |-> ""], ops |-> 0,
     last |-> NoSearch]

\* similarity_search(query, k): rows is what the SELECT gives, q the embedding
\* of the query.  psycopg2.connect is outside the try block; every exception
\* inside it is raised again as Exception("Search debug: ...").
SimilaritySearch(q, k, fault, rows) ==
    LET raised(cause) == [outcome |-> "raised", cause |-> cause,
                          rows |-> <<>>, debug_info |-> FALSE]
    IN IF fault = "connect" THEN raised("operational")
       ELSE IF CountCheck(Cardinality(db.embeddings)) # "none"
       THEN raised(CountCheck(Cardinality(db.embeddings)))
       ELSE IF fault = "embed" THEN raised("embedding")
       ELSE IF rows = <<>> THEN raised("zero_rows")
       ELSE [outcome |-> "returned", cause |-> "", rows |-> rows,
             debug_info |-> TRUE]

\* A corpus add_documents has committed: documents of the full layout, each
\* with one embedding of the model's length.
Corpus(vectors) ==
    [documents |-> {[id |-> n, layout |-> DocumentLayouts[1], txn |-> 0] :
                       n \in 1..Len(vectors)},
     embeddings |-> {[document_id |-> n, model_id |-> 1,
                      length |-> Len(vectors[n]), embedding |-> vectors[n],
                      txn |-> 0] : n \in 1..Len(vectors)},
     models |-> IF vectors = <<>> THEN {}
                ELSE {[id |-> 1, name |-> ModelName(conf.embedding_dimension),
                       dimension |-> conf.embedding_dimension, txn |-> 0]}]

SearchInit ==
    /\ conf = [documents |-> DocumentLayouts[1], models |-> ModelLayouts[1],
               embeddings |-> EmbeddingLayouts[1], unique |-> TRUE,
               embedding_dimension |-> 2, vector_length |-> 2,
               column_dimension |-> 2]
    /\ \E n \in 0..MaxCorpus : \E vectors \in [1..n -> Vectors] :
          db = Corpus(vectors)
    /\ seq = [documents |-> MaxCorpus + 1, models |-> 2]
    /\ wr = [w \in Writers |-> IdleWriter]
    /\ calls = 0
    /\ \E k \in Ks : vs = [VectorIdle EXCEPT !.number_of_results = k]

\* A call of similarity_search on a TisVectorStore.
SimilaritySearchCall ==
    /\ vs.ops < MaxSearches
    /\ \E k \in Ks, fault \in Faults, q \in Vectors :
         \E rows \in Selected(q, k) :
            LET result == SimilaritySearch(q, k, fault, rows)
            IN vs' = [vs EXCEPT !.ops = @ + 1,
                         !.last = [op |-> "similarity_search",
                                   blank |-> FALSE, k |-> k, fault |-> fault,
                                   query_embedding |-> q,
                                   outcome |-> result.outcome,
                                   cause |-> result.cause,
                                   rows |-> result.rows,
                                   debug_info |-> result.debug_info]]
    /\ UNCHANGED <<conf, db, seq, wr, calls, mg, mongo, rd, cv, rl>>

\* The rows SELECT content, metadata FROM documents LIMIT k can give.
AnyDocuments(k) ==
    {SubSeq(f, 1, Min(k, Len(f))) : f \in Orderings(db.documents)}

\* search_documents(): the store is built on the first call (_validate_schema
\* connects) and cached when that succeeds; a blank query goes to
\* _get_all_documents; every exception becomes self.status and [].
VectorSearchDocuments ==
    /\ vs.ops < MaxSearches
    /\ \E search_query \in SearchQueries, fault \in Faults, q \in Vectors :
         \E rows \in Selected(q, vs.number_of_results),
            documents \in AnyDocuments(vs.number_of_results) :
            LET blank == Strip(search_query) = <<>>
                built == vs._cached_vector_store \/ fault # "connect"
                result == SimilaritySearch(q, vs.number_of_results, fault, rows)
                failed(kind, cause) ==
                    [status |-> [kind |-> kind, n |-> 0, cause |-> cause],
                     rows |-> <<>>, debug_info |-> FALSE]
                done ==
                    IF ~built THEN failed("search_failed", "build_failed")
                    ELSE IF blank
                    THEN IF fault = "connect"
                         THEN failed("get_all_failed", "operational")
                         ELSE [status |-> [kind |-> "retrieved",
                                           n |-> Len(documents), cause |-> ""],
                               rows |-> documents, debug_info |-> FALSE]
                    ELSE IF result.outcome = "raised"
                    THEN failed("search_failed", result.cause)
                    ELSE [status |-> [kind |-> "found", n |-> Len(rows),
                                      cause |-> ""],
                          rows |-> rows, debug_info |-> TRUE]
            IN vs' = [vs EXCEPT !.ops = @ + 1,
                         !._cached_vector_store = built,
                         !.status = done.status,
                         !.last = [op |-> "search_documents",
                                   blank |-> blank,
                                   k |-> vs.number_of_results,
                                   fault |-> fault,
                                   query_embedding |-> q,
                                   outcome |-> "returned",
                                   cause |-> done.status.cause,
                                   rows |-> done.rows,
                                   debug_info |-> done.debug_info]]
    /\ UNCHANGED <<conf, db, seq, wr, calls, mg, mongo, rd, cv, rl>>

SearchNext == SimilaritySearchCall \/ VectorSearchDocuments

SearchSpecInit ==
    /\ SearchInit /\ MgInit /\ mongo = MongoIdle /\ RdInit
    /\ cv = ConvertIdle /\ rl = ReloadIdle

SpecSearch == SearchSpecInit /\ [][SearchNext]_vars

Init ==
    /\ PgInit /\ MgInit /\ mongo = MongoIdle /\ RdInit /\ vs = VectorIdle
    /\ cv = ConvertIdle /\ rl = ReloadIdle

PgIdle ==
    /\ conf = [documents |-> {}, models |-> {"name"},
               embeddings |-> {"document_id", "embedding"},
               unique |-> FALSE, embedding_dimension |-> 1,
               vector_length |-> 1, column_dimension |-> 0]
    /\ db = NoRows
    /\ seq = [documents |-> 1, models |-> 1]
    /\ wr = [w \in Writers |-> IdleWriter]
    /\ calls = 0

IntentInit ==
    /\ PgIdle /\ MgInit /\ mongo = MongoIdle /\ RdInit /\ vs = VectorIdle
    /\ cv = ConvertIdle /\ rl = ReloadIdle

MongoSpecInit ==
    /\ PgIdle /\ MgInit /\ MongoInit /\ RdInit /\ vs = VectorIdle
    /\ cv = ConvertIdle /\ rl = ReloadIdle

SpecMongo == MongoSpecInit /\ [][MongoNext]_vars

RedisSpecInit ==
    /\ PgIdle /\ MgInit /\ mongo = MongoIdle /\ RedisInit /\ vs = VectorIdle
    /\ cv = ConvertIdle /\ rl = ReloadIdle

SpecRedis == RedisSpecInit /\ [][RedisNext]_vars

ConvertSpecInit ==
    /\ PgIdle /\ MgInit /\ mongo = MongoIdle /\ RdInit /\ vs = VectorIdle
    /\ cv = ConvertIdle /\ rl = ReloadIdle

SpecConvert == ConvertSpecInit /\ [][ConvertNext]_vars

ReloadSpecInit ==
    /\ PgIdle /\ MgInit /\ mongo = MongoIdle /\ RdInit /\ vs = VectorIdle
    /\ cv = ConvertIdle /\ rl = ReloadIdle

SpecReload == ReloadSpecInit /\ [][ReloadNext]_vars

SpecIntent == IntentInit /\ [][IntentNext]_vars

Next ==
    \E w \in Writers :
        \/ Call(w)
        \/ SelectModel(w)
        \/ InsertModel(w)
        \/ Embed(w)
        \/ InsertDocument(w)
        \/ InsertEmbedding(w)
        \/ Commit(w)
        \/ Return(w)

Spec == Init /\ [][Next]_vars

(***************************************************************************)
(* Claims about TisVectorStore, checked under Spec                         *)
(***************************************************************************)
Finished(w) == wr[w].pc = "done"

RowsOf(table, txn) == {r \in db[table] : r.txn = txn}

\* Error kinds a call met that come from the schema alone.
SchemaErrors == {"undefined_column", "in_failed_transaction"}

\* A call that met no injected fault (lost connection, failing embedder).
NoFault(w) == wr[w].errs \cap {"operational", "embedding"} = {}

\* A failed call leaves none of its rows behind (documents, embeddings, model
\* record), and the committed rows pair up: every embedding row with a
\* document row of its own transaction, every document row with an embedding.
RollbackLeavesNothing ==
    /\ \A w \in Writers :
          (Finished(w) /\ wr[w].outcome = "raised") =>
             \A t \in DOMAIN db : RowsOf(t, wr[w].txn) = {}
    /\ \A e \in db.embeddings :
          \E d \in db.documents : d.id = e.document_id /\ d.txn = e.txn
    /\ \A d \in db.documents :
          \E e \in db.embeddings : e.document_id = d.id

\* C1: every add_documents call is all-or-nothing: after a failed call the
\* store holds none of the batch's rows, after a successful call it holds all
\* n documents and n embeddings of the batch, and committed rows pair up.
C1_AtomicBatch ==
    /\ RollbackLeavesNothing
    /\ \A w \in Writers :
          (Finished(w) /\ wr[w].outcome = "ok") =>
             /\ Cardinality(RowsOf("documents", wr[w].txn)) = wr[w].n
             /\ Cardinality(RowsOf("embeddings", wr[w].txn)) = wr[w].n

\* C2: two concurrent writers that both miss the model record on their first
\* lookup both succeed and use the same model record, and the table holds one
\* record of that name.
C2_RacingWritersBothSucceed ==
    \A w1 \in Writers : \A w2 \in Writers \ {w1} :
        ( /\ Finished(w1) /\ Finished(w2)
          /\ wr[w1].missed /\ wr[w2].missed
          /\ NoFault(w1) /\ NoFault(w2)
          /\ "undefined_column" \notin wr[w1].errs \cup wr[w2].errs )
        => /\ wr[w1].outcome = "ok" /\ wr[w2].outcome = "ok"
           /\ wr[w1].model_id = wr[w2].model_id
           /\ Cardinality({r \in db.models :
                   r.name = ModelName(conf.embedding_dimension)}) = 1

\* C3: the models table never holds two records of one dimension's name, and
\* every successful call used the identity of the record the table holds.
C3_OneModelRecordPerDimension ==
    \A d \in Dimensions :
       LET recs == {r \in db.models : r.name = ModelName(d)}
       IN /\ Cardinality(recs) <= 1
          /\ \A w \in Writers :
                ( /\ Finished(w) /\ wr[w].outcome = "ok" /\ wr[w].n > 0
                  /\ d = conf.embedding_dimension )
                => \A r \in recs : r.id = wr[w].model_id

\* C4: a call that met nothing but schema errors fails only when a table
\* rejects even the narrowest layout the code tries.
C4_FallbackBeforeError ==
    \A w \in Writers :
        ( /\ Finished(w) /\ wr[w].outcome = "raised"
          /\ wr[w].errs \subseteq SchemaErrors )
        => \/ ~(DocumentLayouts[Len(DocumentLayouts)] \subseteq conf.documents)
           \/ ~(ModelLayouts[Len(ModelLayouts)] \subseteq conf.models)
           \/ ~(EmbeddingLayouts[Len(EmbeddingLayouts)] \subseteq conf.embeddings)

\* C5: the attempts of one _insert_document call follow the fixed order of
\* layouts, each a strict subset of the one before, at most three, none twice,
\* and every attempt after the first follows an unknown-column failure.
C5_RetryOnlyOnUnknownColumn ==
    \A w \in Writers :
       LET a == wr[w].attempts
       IN /\ Len(a) <= Len(DocumentLayouts)
          /\ \A k \in 1..Len(a) : a[k].layout = DocumentLayouts[k]
          /\ \A k \in 2..Len(a) :
                /\ a[k].layout \subseteq a[k-1].layout
                /\ a[k].layout # a[k-1].layout
                /\ a[k-1].err = "undefined_column"

\* The order part of C5 alone: what the nested try blocks do guarantee.
AttemptsInLayoutOrder ==
    \A w \in Writers :
       LET a == wr[w].attempts
       IN /\ Len(a) <= Len(DocumentLayouts)
          /\ \A k \in 1..Len(a) : a[k].layout = DocumentLayouts[k]
          /\ \A k \in 2..Len(a) :
                /\ a[k].layout \subseteq a[k-1].layout
                /\ a[k].layout # a[k-1].layout
                /\ a[k-1].err # "none"

\* C19: every committed embedding vector has the length that the model
\* record it points to declares, which is the configured embedding_dimension.
C19_VectorLengthIsModelDimension ==
    \A e \in db.embeddings :
        /\ e.length = conf.embedding_dimension
        /\ \A r \in db.models : r.id = e.model_id => r.dimension = e.length

\* C24: a successful add_documents call on n documents returns n
\* identities in input order and commits n document rows, each with one
\* embedding row, however many vectors embed_documents returned; the empty
\* batch returns the empty list and meets no error.
C24_OneIdentityPerDocument ==
    \A w \in Writers :
        (Finished(w) /\ wr[w].outcome = "ok") =>
            LET ids == wr[w].document_ids
                documents == RowsOf("documents", wr[w].txn)
            IN /\ Len(ids) = wr[w].n
               /\ \A i, j \in 1..Len(ids) : i < j => ids[i] < ids[j]
               /\ {ids[i] : i \in 1..Len(ids)} = {d.id : d \in documents}
               /\ Cardinality(documents) = wr[w].n
               /\ \A d \in documents :
                     Cardinality({e \in db.embeddings :
                                     e.document_id = d.id}) = 1
               /\ wr[w].n = 0 => wr[w].errs = {}

(***************************************************************************)
(* Claims about the similarity search, checked under SpecSearch            *)
(***************************************************************************)
\* The last call was a search for a query that is not blank.
Searched == vs.last.op # "none" /\ ~vs.last.blank

Populated == db.embeddings # {}

\* C11: k = 0 over a populated corpus gives an empty result and no error:
\* similarity_search returns [], and search_documents reports a search that
\* found 0 results.
C11_ZeroKIsEmptyNotError ==
    (Searched /\ vs.last.k = 0 /\ vs.last.fault = "none" /\ Populated) =>
        /\ vs.last.outcome = "returned"
        /\ vs.last.rows = <<>>
        /\ vs.last.op = "search_documents" => vs.status.kind = "found"

C13_NotPopulatedSignal ==
    /\ (Searched /\ vs.last.fault # "connect" /\ ~Populated) =>
          /\ vs.last.cause = "no_embeddings"
          /\ vs.last.op = "similarity_search" => vs.last.outcome = "raised"
          /\ vs.last.op = "search_documents" =>
                /\ vs.status.kind = "search_failed"
                /\ vs.status.cause = "no_embeddings"
    /\ vs.last.cause = "no_embeddings" =>
          /\ ~Populated
          /\ vs.last.fault # "connect"
          /\ vs.last.rows = <<>>

\* search_documents ran over a store without embeddings and reported it.
C13_Witness ==
    /\ vs.last.op = "search_documents"
    /\ ~vs.last.blank
    /\ vs.last.fault = "none"
    /\ ~Populated
    /\ vs.status.cause = "no_embeddings"

(***************************************************************************)
(* Claims about _detect_intent, checked under SpecIntent                   *)
(***************************************************************************)
\* Absent, empty or all whitespace.
Blank(input) ==
    input = None \/ \A i \in 1..Len(input) : input[i] \in Whitespace

\* t is input without its leading and trailing whitespace.
IsTrimOf(t, input) ==
    \E a \in 1..Len(input), b \in 1..Len(input) :
        /\ a <= b /\ t = SubSeq(input, a, b)
        /\ input[a] \notin Whitespace /\ input[b] \notin Whitespace
        /\ \A i \in 1..Len(input) :
              (i < a \/ i > b) => input[i] \in Whitespace

C7_NonMappingIsSearch ==
    mg.pc = "detected" =>
       /\ mg.intent = "store" => mg.payload.kind = "dict"
       /\ ( /\ ~Blank(mg.user_input)
            /\ Loads(Strip(mg.user_input)).ok
            /\ Loads(Strip(mg.user_input)).val.kind # "dict" )
          => /\ mg.intent = "search"
             /\ mg.payload = TextValue(Strip(mg.user_input))

(***************************************************************************)
(* Claims about the document store, checked under SpecMongo                *)
(***************************************************************************)
\* The call before this one stored a mapping, and this call's input is a
\* non-empty exact substring of that document's content, with the server
\* answering and search_limit at its default.
SubstringOfStored ==
    /\ mongo.before.mapping
    /\ mongo.up
    /\ mongo.search_limit = DefaultSearchLimit
    /\ mongo.user_input # None
    /\ mongo.user_input # <<>>
    /\ Contains(mongo.before.content, mongo.user_input)

\* C8: a smart_operation call whose input is an exact substring of the
\* content of the mapping stored by the call before it takes the search
\* path, and its results include that document.
C8_SubstringRoundTrip ==
    SubstringOfStored =>
        /\ mongo._operation_type = "search"
        /\ mongo.result.kind = "found"
        /\ \E n \in 1..Len(mongo.result.ids) :
              mongo.result.ids[n] = mongo.before._id

\* The document the last call wrote.
Written == mongo.collection[Len(mongo.collection)]

\* The keys of a mapping.
KeysOf(m) == {m.items[n].k : n \in 1..Len(m.items)}

\* `Label: value` for the n-th recognised key of the mapping m; a list of
\* tags is written with ", " between its elements.
Labelled(m, n) ==
    ContentKeys[n].label \o
        (IF ContentKeys[n].key = TagsKey
         THEN TagsText(Get(m, TagsKey)).text
         ELSE Str(Get(m, ContentKeys[n].key)))

RECURSIVE LabelledFrom(_, _)
\* The labelled parts of m for the recognised keys from the n-th on, in the
\* fixed order.
LabelledFrom(m, n) ==
    IF n > Len(ContentKeys) THEN <<>>
    ELSE (IF ContentKeys[n].key \in KeysOf(m) THEN <<Labelled(m, n)>>
          ELSE <<>>) \o LabelledFrom(m, n + 1)

\* {"title": "Hello", "code": "print(1)"} and the same mapping with its keys
\* in the other order
HelloInputs ==
    {
      <<"{", "\"", "t", "i", "t", "l", "e", "\"", ":", " ", "\"", "H", "e",
        "l", "l", "o", "\"", ",", " ", "\"", "c", "o", "d", "e", "\"", ":",
        " ", "\"", "p", "r", "i", "n", "t", "(", "1", ")", "\"", "}">>,
      <<"{", "\"", "c", "o", "d", "e", "\"", ":", " ", "\"", "p", "r", "i",
        "n", "t", "(", "1", ")", "\"", ",", " ", "\"", "t", "i", "t", "l",
        "e", "\"", ":", " ", "\"", "H", "e", "l", "l", "o", "\"", "}">> }

\* Title: Hello | Code: print(1)
HelloContent ==
    <<"T", "i", "t", "l", "e", ":", " ", "H", "e", "l", "l", "o", " ", "|",
      " ", "C", "o", "d", "e", ":", " ", "p", "r", "i", "n", "t", "(", "1",
      ")">>

\* C14: the content of a stored mapping is its recognised keys in the order
\* title, description, code, content, language, tags, whatever the order of
\* the input, each as `Label: value`, joined by " | "; without a recognised
\* key it is the serialization of the mapping; the mapping
\* {"title": "Hello", "code": "print(1)"} gets Title: Hello | Code: print(1).
C14_ContentDerivation ==
    mongo.stored.mapping =>
        /\ Written.content =
              (IF LabelledFrom(Written.metadata, 1) = <<>>
               THEN Dumps(Written.metadata)
               ELSE Join(<<" ", "|", " ">>, LabelledFrom(Written.metadata, 1)))
        /\ mongo.user_input \in HelloInputs => Written.content = HelloContent

\* The mapping with code before title was stored.
C14_Witness ==
    /\ mongo.stored.mapping
    /\ mongo.user_input \in HelloInputs
    /\ Head(Written.metadata.items).k = <<"c", "o", "d", "e">>
    /\ Written.content = HelloContent

\* C15: every input classified as store gets a content string that is not
\* empty, and a document with it is written.
C15_StoreContentNonEmpty ==
    (mongo.ops > 0 /\ mongo.up /\ mongo._operation_type = "store") =>
        /\ mongo.result.kind = "stored"
        /\ mongo.stored.content # <<>>

\* C16: no connection handle survives the operation that opened it.
C16_ConnectionsReleased == mongo.ops > 0 => mongo._client = "None"

\* A new component over the collection the last call found.
FreshComponent ==
    [MongoIdle EXCEPT !.collection = mongo.had,
                      !.search_limit = mongo.search_limit,
                      !.ops = mongo.ops - 1]

\* C17: a call returns what a new component returns for the same input, the
\* same collection and the same availability of the server, whatever the
\* calls before it did.
C17_NoCrossRequestState ==
    mongo.ops > 0 =>
        mongo.result =
            SmartOperationOn(FreshComponent, mongo.user_input, mongo.up).result

\* C20: a search returns at most search_limit documents, the newest first,
\* and says that no documents were found when none matches.
C20_ReadPathLimit ==
    /\ mongo.result.kind = "found" =>
          /\ Len(mongo.result.ids) <= mongo.search_limit
          /\ \A a, b \in 1..Len(mongo.result.ids) :
                a < b => mongo.result.ids[a] > mongo.result.ids[b]
    /\ ( /\ mongo.ops > 0
         /\ mongo.up
         /\ mongo._operation_type = "search"
         /\ \A d \in 1..Len(mongo.had) :
               ~Matches(Strip(mongo.user_input), mongo.had[d]) )
          => mongo.result.kind = "not_found"

\* C23: the component never keeps a client whose ping did not succeed: a
\* call that fails to connect leaves no client cached.
C23_OnlyPingedClientCached ==
    /\ mongo._client \in {"None", "verified"}
    /\ (mongo.ops > 0 /\ mongo.result.cause = "connection") =>
          mongo._client = "None"

(***************************************************************************)
(* Claims about the Redis components, checked under SpecRedis              *)
(***************************************************************************)
\* get_value has run with the redis module imported and a key that is not
\* blank.
LookedUp ==
    /\ rd.last.op = "get_value"
    /\ rd.redis
    /\ Strip(rd.last.key) # <<>>

\* The connection or the lookup of the last get_value failed: the server did
\* not answer, or redis_db is not a number.
LookupFailed == LookedUp /\ (~rd.last.up \/ IntOf(rd.last.redis_db).raised)

\* What the server holds under the trimmed key of the last get_value.
Held ==
    IF Strip(rd.last.redis_db) = <<"0">> /\ Strip(rd.last.key) = <<"k">>
    THEN rd.k ELSE None

\* C9: no public output operation lets an exception escape to its caller
\* when the store behind it fails.
C9_NoFailureEscapes == rd.last.outcome # "raised"

\* C10: get_value never raises; a failed connection or lookup, a non-numeric
\* redis_db included, gives a message with empty text and a logged error; an
\* absent key gives empty text; a present key gives the stored string.
C10_GetValueNeverRaises ==
    /\ rd.last.op = "get_value" => rd.last.outcome = "message"
    /\ LookupFailed => rd.last.text = <<>> /\ rd.last.logged = "error"
    /\ (LookedUp /\ ~LookupFailed) =>
          rd.last.text = (IF Held = None THEN <<>> ELSE Held)

\* A get_value call that failed on a non-numeric redis_db while the server
\* was answering.
C10_Witness ==
    /\ LookedUp
    /\ rd.last.up
    /\ IntOf(rd.last.redis_db).raised
    /\ rd.last.outcome = "message"

\* C18: the history of every session is a list of pairs, a human message
\* with the user's sender label and name followed by an AI message with the
\* AI's, all carrying the identifier of the session they are filed under.
C18_AlternatingHistory ==
    \A session_id \in Sessions :
        LET history == rd.history[session_id]
        IN /\ Len(history) % 2 = 0
           /\ \A n \in 1..Len(history) :
                 /\ history[n].session_id = session_id
                 /\ history[n].type = (IF n % 2 = 1 THEN "human" ELSE "ai")
                 /\ history[n].sender =
                      (IF n % 2 = 1 THEN "MESSAGE_SENDER_USER"
                       ELSE "MESSAGE_SENDER_AI")
                 /\ history[n].sender_name =
                      (IF n % 2 = 1 THEN "MESSAGE_SENDER_NAME_USER"
                       ELSE "MESSAGE_SENDER_NAME_AI")

(***************************************************************************)
(* Claims checked under SpecConvert                                        *)
(***************************************************************************)
Converted == cv.pc = "converted"

\* the message has a text, and json.loads accepts it
ParsesAs(kinds) ==
    /\ cv.message # None /\ cv.message # <<>>
    /\ Loads(cv.message).ok
    /\ Loads(cv.message).val.kind \in kinds

NonObjectKinds == {"list", "int", "str", "const"}

C21_HardReloadInOrder ==
    \A r \in Requests :
        LET q == rl.req[r]
        IN /\ q.pc = "loading" => (q.replaced /\ q.found_empty)
           /\ q.loaded => (q.replaced /\ q.found_empty)
           /\ q.response.status_code = 200 =>
                 /\ q.replaced /\ q.found_empty /\ q.loaded
                 /\ q.cached # NoTypes
                 /\ q.failed = ""
                 /\ q.response = SuccessResponse
           /\ q.failed # "" =>
                 /\ q.response.status_code = 500
                 /\ q.response.text =
                        "Failed to refresh components: " \o q.failed
           /\ q.pc = "answered" => q.response.status_code \in {200, 500}
           /\ q.pc # "answered" => q.response = NoResponse

\* a request answered success after another request had replaced the cache
\* during its read of the component files
C21_Witness ==
    \E r \in Requests :
        /\ rl.req[r].response.status_code = 200
        /\ rl.req[r].installed < rl.cache.id
        /\ \E o \in Requests \ {r} : rl.req[o].installed = rl.cache.id

====
